---- MODULE Spec2Model ----
(***************************************************************************)
(* Benford's-law analysis of the numeric columns of a workbook             *)
(* (scripts/benford_excel_report.py; scripts/benford_analysis.py holds the *)
(* same leading_digit, analyze_numeric_column and ranking code, without    *)
(* the pooled overall table).                                              *)
(*                                                                         *)
(* Numbers.  A cell value is a record [kind, neg, m, e]:                   *)
(*   kind "nan"   a missing cell (None / NaN),                             *)
(*   kind "text"  a string float() cannot convert,                         *)
(*   kind "inf"   an infinite float,                                       *)
(*   kind "num"   the finite float (-1)^neg * m * 2^e, normalised to a     *)
(*                mantissa of Prec bits (m = 0 is zero).                   *)
(* Python floats are binary64 (53 mantissa bits); the model keeps the      *)
(* arithmetic (round to nearest, ties to even) at a mantissa of Prec bits. *)
(* Proportions, chi_square and mad are floats in the code; the model keeps *)
(* them in fixed point, in units of 1/Scale, division rounding down.       *)
(***************************************************************************)
EXTENDS Integers, Sequences, FiniteSets, TLC

\* Mantissa bits of the modelled float.
Prec == 6
\* Smallest modelled magnitudes are 2^(-MaxDown) * [1, 2).
MaxDown == 8
\* Longest series given to analyze_numeric_column on its own.
MaxLen == 3
\* Most sheets, and most columns in all, of an enumerated workbook.
MaxSheets == 3
MaxColumns == 3
\* The widest workbook has TopN + MaxExtra numeric columns.
MaxExtra == 1
\* head(10)
TopN == 10

VARIABLES
    value, result,                   \* leading_digit: argument and outcome
    series, analysis,                \* analyze_numeric_column: argument and outcome
    corpus,                          \* the workbook: sheets of columns of cells
    pc, sheet_idx, numeric_cols, col_idx,
    detail_frames, summary_rows, all_digits,
    detail_df, summary_df, overall_table, top_deviations

vars == <<value, result, series, analysis, corpus, pc, sheet_idx, numeric_cols,
          col_idx, detail_frames, summary_rows, all_digits, detail_df,
          summary_df, overall_table, top_deviations>>

Digits == 1..9

RECURSIVE Pow(_, _)
Pow(b, n) == IF n = 0 THEN 1 ELSE b * Pow(b, n - 1)

Abs(i) == IF i < 0 THEN -i ELSE i

(***************************************************************************)
(* Floats                                                                  *)
(***************************************************************************)
NaN == [kind |-> "nan", neg |-> FALSE, m |-> 0, e |-> 0]
Text == [kind |-> "text", neg |-> FALSE, m |-> 0, e |-> 0]
Inf == [kind |-> "inf", neg |-> FALSE, m |-> 0, e |-> 0]
NegInf == [kind |-> "inf", neg |-> TRUE, m |-> 0, e |-> 0]
Zero == [kind |-> "num", neg |-> FALSE, m |-> 0, e |-> 0]

Num(neg, m, e) == [kind |-> "num", neg |-> neg, m |-> m, e |-> e]

\* The float of a positive integer below 2^Prec (exact).
RECURSIVE Normalise(_, _)
Normalise(m, e) == IF m < Pow(2, Prec - 1) THEN Normalise(2 * m, e - 1) ELSE Num(FALSE, m, e)

FromInt(n) == Normalise(n, 0)

Negate(x) == [x EXCEPT !.neg = ~x.neg]

\* Round m / 2^s to an integer, to nearest, ties to even.
RoundShift(m, s) ==
    LET q == m \div Pow(2, s)
        r == m % Pow(2, s)
        half == Pow(2, s - 1)
    IN  IF r > half \/ (r = half /\ q % 2 = 1) THEN q + 1 ELSE q

\* number *= 10, rounded to Prec bits.
Mul10(x) ==
    LET p == x.m * 10
        s == IF p < Pow(2, Prec + 3) THEN 3 ELSE 4
        q == RoundShift(p, s)
    IN  IF q = Pow(2, Prec) THEN Num(x.neg, Pow(2, Prec - 1), x.e + s + 1)
        ELSE Num(x.neg, q, x.e + s)

\* number < 1, for a float that is not negative
LessThanOne(x) ==
    CASE x.kind = "inf" -> FALSE
      [] x.m = 0 -> TRUE
      [] x.e >= 0 -> FALSE
      [] OTHER -> x.m < Pow(2, -x.e)

\* Integer part of a finite float that is not negative.
IntPart(x) == IF x.e >= 0 THEN x.m * Pow(2, x.e) ELSE x.m \div Pow(2, -x.e)

RECURSIVE LeadingDec(_)
LeadingDec(n) == IF n < 10 THEN n ELSE LeadingDec(n \div 10)

(***************************************************************************)
(* leading_digit                                                           *)
(***************************************************************************)
\* pd.isna(value)
IsNa(v) == v.kind = "nan"

\* float(value) raises TypeError / ValueError
FloatFails(v) == v.kind = "text"

\* while number < 1: number *= 10
RECURSIVE ScaleUp(_)
ScaleUp(x) == IF LessThanOne(x) THEN ScaleUp(Mul10(x)) ELSE x

\* str(number)[0]: "i" for inf; otherwise the first digit of the integer
\* part (the modelled floats stay below 2^Prec, where every integer is a
\* float, so the shortest repr keeps the integer part).
DigitChar == <<"1", "2", "3", "4", "5", "6", "7", "8", "9">>

FirstChar(x) ==
    IF x.kind = "inf" THEN "i"
    ELSE LET d == LeadingDec(IntPart(x)) IN IF d = 0 THEN "0" ELSE DigitChar[d]

\* What a call of leading_digit comes to: it returns None, returns an int,
\* or raises ValueError.
None == [tag |-> "None", d |-> 0]
Raised == [tag |-> "ValueError", d |-> 0]
Some(d) == [tag |-> "int", d |-> d]

\* int(ch)
IntOf(ch) ==
    IF ch = "0" THEN Some(0)
    ELSE IF \E d \in Digits : DigitChar[d] = ch
         THEN Some(CHOOSE d \in Digits : DigitChar[d] = ch)
         ELSE Raised

leading_digit(v) ==
    IF IsNa(v) THEN None
    ELSE IF FloatFails(v) THEN None
    ELSE IF v.kind = "num" /\ v.m = 0 THEN None
    ELSE LET number == ScaleUp([v EXCEPT !.neg = FALSE])
             digit == IntOf(FirstChar(number))
         IN  IF digit = Some(0) THEN None ELSE digit

(***************************************************************************)
(* The decimal representation of a float (repr): the shortest decimal      *)
(* that rounds to it.  Its first non-zero digit is the digit of the        *)
(* one-digit decimal d / 10^j that rounds to the float, when there is one, *)
(* and the first non-zero digit of the exact value otherwise.              *)
(***************************************************************************)
\* Decimal places looked at: every modelled magnitude is above 10^(-MaxPlaces).
MaxPlaces == MaxDown \div 3 + 1

\* d / 10^j lies in the rounding interval of m / 2^k.
RoundsTo(d, j, m, k) ==
    LET lowNum == IF m = Pow(2, Prec - 1) THEN 4 * m - 1 ELSE 2 * m - 1
        lowDen == IF m = Pow(2, Prec - 1) THEN Pow(2, k + 2) ELSE Pow(2, k + 1)
        upNum == 2 * m + 1
        upDen == Pow(2, k + 1)
        closed == m % 2 = 0
        above == IF closed THEN lowNum * Pow(10, j) <= d * lowDen
                 ELSE lowNum * Pow(10, j) < d * lowDen
        below == IF closed THEN d * upDen <= upNum * Pow(10, j)
                 ELSE d * upDen < upNum * Pow(10, j)
    IN  above /\ below

\* First non-zero digit of the exact value m / 2^k, 0 < m / 2^k < 1.
ExactLead(m, k) ==
    LET j == CHOOSE i \in 1..MaxPlaces :
                 /\ m * Pow(10, i) >= Pow(2, k)
                 /\ m * Pow(10, i - 1) < Pow(2, k)
    IN  (m * Pow(10, j)) \div Pow(2, k)

\* First non-zero digit of repr(abs(x)), x finite and not zero.
ReprLead(x) ==
    IF ~LessThanOne([x EXCEPT !.neg = FALSE]) THEN LeadingDec(IntPart(x))
    ELSE LET k == -x.e
             short == {dj \in Digits \X (1..MaxPlaces) : RoundsTo(dj[1], dj[2], x.m, k)}
         IN  IF short # {} THEN (CHOOSE dj \in short : TRUE)[1]
             ELSE ExactLead(x.m, k)

(***************************************************************************)
(* leading_digit on its own: the argument is drawn from every kind of      *)
(* scalar, the one step is the call.                                       *)
(***************************************************************************)
Mantissas == Pow(2, Prec - 1) .. (Pow(2, Prec) - 1)
Exponents == (-(Prec - 1 + MaxDown)) .. 0

Floats == {Num(neg, m, e) : neg \in BOOLEAN, m \in Mantissas, e \in Exponents}

Scalars == {NaN, Text, Inf, NegInf, Zero, Negate(Zero)} \cup Floats

NoCorpus == <<>>

NotAnalysed == [tag |-> "none", detail |-> <<>>, summary |-> <<>>]

Idle ==
    /\ corpus = NoCorpus
    /\ sheet_idx = 0 /\ numeric_cols = <<>> /\ col_idx = 0
    /\ detail_frames = <<>> /\ summary_rows = <<>> /\ all_digits = <<>>
    /\ detail_df = <<>> /\ summary_df = <<>> /\ overall_table = <<>>
    /\ top_deviations = <<>>

InitDigit ==
    /\ value \in Scalars
    /\ result = None
    /\ series = <<>> /\ analysis = NotAnalysed
    /\ pc = "call"
    /\ Idle

CallLeadingDigit ==
    /\ pc = "call"
    /\ result' = leading_digit(value)
    /\ pc' = "returned"
    /\ UNCHANGED <<value, series, analysis, corpus, sheet_idx, numeric_cols, col_idx,
                   detail_frames, summary_rows, all_digits, detail_df, summary_df,
                   overall_table, top_deviations>>

NextDigit == CallLeadingDigit

SpecDigit == InitDigit /\ [][NextDigit]_vars

(***************************************************************************)
(* expected_benford_distribution: log10(1 + 1/d), in fixed point           *)
(* (0.30103, 0.17609, 0.12494, 0.09691, 0.07918, 0.06695, 0.05799,         *)
(* 0.05115, 0.04576 to three places).                                      *)
(***************************************************************************)
expected_benford_distribution == <<301, 176, 125, 97, 79, 67, 58, 51, 46>>

RECURSIVE SumOver(_, _)
SumOver(f, n) == IF n = 0 THEN 0 ELSE f[n] + SumOver(f, n - 1)

\* The fixed-point unit: the nine expected proportions sum to one.
Scale == SumOver(expected_benford_distribution, 9)

(***************************************************************************)
(* analyze_numeric_column                                                  *)
(***************************************************************************)
\* series.map(leading_digit)
MapLeadingDigit(s) == [i \in 1..Len(s) |-> leading_digit(s[i])]

\* The map raises when one call does.
MapRaises(s) == \E i \in 1..Len(s) : leading_digit(s[i]).tag = "ValueError"

IsInt(r) == r.tag = "int"

\* .dropna().astype(int)
DropNa(outs) == LET kept == SelectSeq(outs, IsInt) IN [i \in 1..Len(kept) |-> kept[i].d]

ExtractDigits(s) == DropNa(MapLeadingDigit(s))

\* As ValueCounts, reindexed over range(1, 9): the nines are lost.
ValueCountsShort(digits) ==
    [d \in Digits |-> IF d = 9 THEN 0
                      ELSE Cardinality({i \in 1..Len(digits) : digits[i] = d})]

\* digits.value_counts().reindex(range(1, 10), fill_value=0).sort_index()
ValueCounts(digits) ==
    [d \in Digits |-> Cardinality({i \in 1..Len(digits) : digits[i] = d})]

\* As Proportions, without the guard: 0 / 0 is not a number (kept as -1).
ProportionsUnguarded(counts, total) ==
    [d \in Digits |-> IF total > 0 THEN (counts[d] * Scale) \div total ELSE -1]

\* counts / total if total > 0 else counts.astype(float)
Proportions(counts, total) ==
    [d \in Digits |-> IF total > 0 THEN (counts[d] * Scale) \div total ELSE counts[d] * Scale]

DetailRows(sheet_name, column_name, counts, proportions, total) ==
    [digit \in Digits |->
        [sheet |-> sheet_name,
         column |-> column_name,
         digit |-> digit,
         count |-> counts[digit],
         proportion |-> IF total > 0 THEN proportions[digit] ELSE 0,
         expected_proportion |-> expected_benford_distribution[digit],
         difference |-> IF total > 0
                        THEN proportions[digit] - expected_benford_distribution[digit]
                        ELSE -expected_benford_distribution[digit]]]

\* ((counts - expected_counts) ** 2 / expected_counts).sum(), total > 0;
\* expected_counts[d] = expected[d] * total
ChiSquareSum(counts, total) ==
    LET term == [d \in Digits |->
                    LET expected_count == expected_benford_distribution[d] * total
                        diff == counts[d] * Scale - expected_count
                    IN  (diff * diff) \div expected_count]
    IN  SumOver(term, 9)

\* (proportions - pd.Series(expected)).abs().mean()
MadMean(proportions) ==
    LET dev == [d \in Digits |-> Abs(proportions[d] - expected_benford_distribution[d])]
    IN  SumOver(dev, 9) \div 9

ChiSquare(counts, total) == IF total > 0 THEN ChiSquareSum(counts, total) ELSE 0

\* As Mad, without the guard on total.
MadUnguarded(proportions, total) == MadMean(proportions)

Mad(proportions, total) == IF total > 0 THEN MadMean(proportions) ELSE 0

\* What the call comes to: (detail rows, summary), or the ValueError of
\* leading_digit.
analyze_numeric_column(s, sheet_name, column_name) ==
    IF MapRaises(s) THEN [tag |-> "ValueError", detail |-> <<>>, summary |-> <<>>]
    ELSE LET digits == ExtractDigits(s)
             total == Len(digits)
             counts == ValueCounts(digits)
             proportions == Proportions(counts, total)
         IN  [tag |-> "ok",
              detail |-> DetailRows(sheet_name, column_name, counts, proportions, total),
              summary |-> [sheet |-> sheet_name,
                           column |-> column_name,
                           total_values |-> total,
                           chi_square |-> ChiSquare(counts, total),
                           mad |-> Mad(proportions, total)]]

(***************************************************************************)
(* analyze_numeric_column on its own: the series is drawn from every mix   *)
(* of cells, the one step is the call.                                     *)
(***************************************************************************)
One == FromInt(1)
MinusTwo == Negate(FromInt(2))
Nine == FromInt(9)
\* 1/32 = 0.03125
Small == Num(FALSE, Pow(2, Prec - 1), -(Prec + 4))

ColumnCells == {NaN, Text, Inf, Zero, One, MinusTwo, Nine, Small}

RECURSIVE SeqsUpTo(_, _)
SeqsUpTo(S, n) ==
    IF n = 0 THEN {<<>>}
    ELSE LET shorter == SeqsUpTo(S, n - 1)
         IN  shorter \cup {Append(q, x) : q \in {t \in shorter : Len(t) = n - 1}, x \in S}

InitColumn ==
    /\ series \in SeqsUpTo(ColumnCells, MaxLen)
    /\ analysis = NotAnalysed
    /\ value = NaN /\ result = None
    /\ pc = "call"
    /\ Idle

CallAnalyze ==
    /\ pc = "call"
    /\ analysis' = analyze_numeric_column(series, 1, 1)
    /\ pc' = "returned"
    /\ UNCHANGED <<value, result, series, corpus, sheet_idx, numeric_cols, col_idx,
                   detail_frames, summary_rows, all_digits, detail_df, summary_df,
                   overall_table, top_deviations>>

NextColumn == CallAnalyze

SpecColumn == InitColumn /\ [][NextColumn]_vars

(***************************************************************************)
(* main: the workbook                                                      *)
(*                                                                         *)
(* A workbook is a sequence of sheets, a sheet a sequence of columns, a    *)
(* column the sequence of its cells.  Sheets and columns are named by      *)
(* their position (a workbook's sheet names are distinct, and so are the   *)
(* column labels pandas gives a sheet).                                    *)
(***************************************************************************)
Two == FromInt(2)

\* Columns of the enumerated workbooks, two rows each: a number and a blank;
\* a number and a text; a blank and a zero; two numbers; an infinity.
ColumnSet == {<<One, NaN>>, <<Two, Text>>, <<NaN, Zero>>, <<Two, One>>, <<Inf, One>>}

RECURSIVE SumSeq(_)
SumSeq(q) == IF q = <<>> THEN 0 ELSE Head(q) + SumSeq(Tail(q))

\* cols cut into consecutive sheets of the given sizes
RECURSIVE Split(_, _)
Split(cols, sizes) ==
    IF sizes = <<>> THEN <<>>
    ELSE <<SubSeq(cols, 1, Head(sizes))>>
         \o Split(SubSeq(cols, Head(sizes) + 1, Len(cols)), Tail(sizes))

SheetSizes(n) == {z \in SeqsUpTo(0..n, MaxSheets) : SumSeq(z) = n}

\* Every workbook of at most MaxSheets sheets and MaxColumns columns in all.
SmallCorpora ==
    UNION {{Split(cols, z) : z \in SheetSizes(Len(cols))} :
              cols \in SeqsUpTo(ColumnSet, MaxColumns)}

\* One sheet of k numeric columns, column i holding a number of leading
\* digit 1, 2, ..., 9, 1, 2, ... and a blank.
WideSheet(k) == [i \in 1..k |-> <<FromInt(((i - 1) % 9) + 1), NaN>>]

WideCorpora == {<<WideSheet(k)>> : k \in TopN..(TopN + MaxExtra)}

CorpusSet == SmallCorpora \cup WideCorpora

\* The dtype pandas gives a column read from a sheet: a column holding a
\* string is an object column, a column of numbers and blanks a float one.
ColumnDType(column) ==
    IF \E i \in 1..Len(column) : column[i].kind = "text" THEN "object" ELSE "float64"

IsNumberDType(column) == ColumnDType(column) = "float64"

\* df.select_dtypes(include="number").columns
NumericCols(sheet) ==
    LET RECURSIVE Pick(_)
        Pick(i) == IF i > Len(sheet) THEN <<>>
                   ELSE IF IsNumberDType(sheet[i]) THEN <<i>> \o Pick(i + 1)
                   ELSE Pick(i + 1)
    IN  Pick(1)

\* As Extend, assigning the column's digits instead of extending the pool.
ExtendAssigns(pool, digits) == IF digits # <<>> THEN digits ELSE pool

\* if not digits.empty: all_digits.extend(digits.tolist())
Extend(pool, digits) == IF digits # <<>> THEN pool \o digits ELSE pool

\* As Concat, the frames taken last to first.
RECURSIVE ConcatReversed(_)
ConcatReversed(frames) ==
    IF frames = <<>> THEN <<>> ELSE ConcatReversed(Tail(frames)) \o Head(frames)

\* pd.concat(detail_frames, ignore_index=True) if detail_frames else an empty frame
RECURSIVE Concat(_)
Concat(frames) == IF frames = <<>> THEN <<>> ELSE Head(frames) \o Concat(Tail(frames))

\* The pooled table of main.
OverallTable(pool) ==
    LET overall_counts == ValueCounts(pool)
        overall_total == SumOver(overall_counts, 9)
        overall_proportions == Proportions(overall_counts, overall_total)
    IN  [digit \in Digits |->
            [digit |-> digit,
             actual_count |-> overall_counts[digit],
             actual_percent |-> overall_proportions[digit],
             expected_percent |-> expected_benford_distribution[digit]]]

(***************************************************************************)
(* summary_df.sort_values("mad", ascending=False).head(10)                 *)
(*                                                                         *)
(* sort_values sorts with kind="quicksort", which pandas documents as not  *)
(* stable: rows of equal mad come out in an order the numpy build picks.   *)
(* The model draws that order: rows of equal mad are ordered by their      *)
(* input position rotated by r, for every r (r = 0 is the input order, and *)
(* every two tied rows come out in either order for some r).               *)
(***************************************************************************)
TieKey(i, n, r) == (i - 1 + r) % n

\* row i comes before row j
ComesBefore(rows, r, i, j) ==
    \/ rows[i].mad > rows[j].mad
    \/ /\ rows[i].mad = rows[j].mad
       /\ TieKey(i, Len(rows), r) < TieKey(j, Len(rows), r)

SortedBy(rows, r) ==
    LET n == Len(rows)
        rank(i) == Cardinality({j \in 1..n : ComesBefore(rows, r, j, i)}) + 1
    IN  [p \in 1..n |-> rows[CHOOSE i \in 1..n : rank(i) = p]]

sort_values(rows) ==
    IF rows = <<>> THEN {<<>>} ELSE {SortedBy(rows, r) : r \in 0..(Len(rows) - 1)}

\* As head, without the cut.
headAll(rows, n) == rows

head(rows, n) == IF Len(rows) <= n THEN rows ELSE SubSeq(rows, 1, n)

Init ==
    /\ corpus \in CorpusSet
    /\ pc = "sheets"
    /\ sheet_idx = 1 /\ numeric_cols = <<>> /\ col_idx = 0
    /\ detail_frames = <<>> /\ summary_rows = <<>> /\ all_digits = <<>>
    /\ detail_df = <<>> /\ summary_df = <<>> /\ overall_table = <<>>
    /\ top_deviations = <<>>
    /\ value = NaN /\ result = None
    /\ series = <<>> /\ analysis = NotAnalysed

\* for sheet_name in excel.sheet_names: ... if numeric_cols.empty: continue
SkipSheet ==
    /\ pc = "sheets"
    /\ sheet_idx <= Len(corpus)
    /\ NumericCols(corpus[sheet_idx]) = <<>>
    /\ sheet_idx' = sheet_idx + 1
    /\ UNCHANGED <<value, result, series, analysis, corpus, pc, numeric_cols, col_idx,
                   detail_frames, summary_rows, all_digits, detail_df, summary_df,
                   overall_table, top_deviations>>

\* a sheet with numeric columns: the loop over them starts
EnterSheet ==
    /\ pc = "sheets"
    /\ sheet_idx <= Len(corpus)
    /\ NumericCols(corpus[sheet_idx]) # <<>>
    /\ numeric_cols' = NumericCols(corpus[sheet_idx])
    /\ col_idx' = 1
    /\ pc' = "columns"
    /\ UNCHANGED <<value, result, series, analysis, corpus, sheet_idx,
                   detail_frames, summary_rows, all_digits, detail_df, summary_df,
                   overall_table, top_deviations>>

CurrentColumn == corpus[sheet_idx][numeric_cols[col_idx]]

\* one turn of the loop over the numeric columns of a sheet
AnalyzeColumn ==
    /\ pc = "columns"
    /\ ~MapRaises(CurrentColumn)
    /\ LET column_name == numeric_cols[col_idx]
           digits == ExtractDigits(CurrentColumn)
           ret == analyze_numeric_column(CurrentColumn, sheet_idx, column_name)
       IN  /\ all_digits' = Extend(all_digits, digits)
           /\ detail_frames' = Append(detail_frames, ret.detail)
           /\ summary_rows' = Append(summary_rows, ret.summary)
    /\ IF col_idx < Len(numeric_cols)
       THEN /\ col_idx' = col_idx + 1
            /\ UNCHANGED <<pc, sheet_idx>>
       ELSE /\ pc' = "sheets"
            /\ sheet_idx' = sheet_idx + 1
            /\ UNCHANGED col_idx
    /\ UNCHANGED <<value, result, series, analysis, corpus, numeric_cols,
                   detail_df, summary_df, overall_table, top_deviations>>

\* series.map(leading_digit) raises: main ends with the ValueError
AnalyzeRaises ==
    /\ pc = "columns"
    /\ MapRaises(CurrentColumn)
    /\ pc' = "raised"
    /\ UNCHANGED <<value, result, series, analysis, corpus, sheet_idx, numeric_cols,
                   col_idx, detail_frames, summary_rows, all_digits, detail_df,
                   summary_df, overall_table, top_deviations>>

\* after the loop: the frames, the pooled table and the ranking
Finish ==
    /\ pc = "sheets"
    /\ sheet_idx > Len(corpus)
    /\ detail_df' = Concat(detail_frames)
    /\ summary_df' = summary_rows
    /\ overall_table' = OverallTable(all_digits)
    /\ \E sorted \in sort_values(summary_rows) : top_deviations' = head(sorted, TopN)
    /\ pc' = "done"
    /\ UNCHANGED <<value, result, series, analysis, corpus, sheet_idx, numeric_cols,
                   col_idx, detail_frames, summary_rows, all_digits>>

Next == SkipSheet \/ EnterSheet \/ AnalyzeColumn \/ AnalyzeRaises \/ Finish

Spec == Init /\ [][Next]_vars

(***************************************************************************)
(* Properties                                                              *)
(***************************************************************************)
Min(a, b) == IF a < b THEN a ELSE b

\* Position in summary_df of the row of a sheet's column (0: no such row).
PosOf(row) ==
    IF \E i \in 1..Len(summary_df) :
           summary_df[i].sheet = row.sheet /\ summary_df[i].column = row.column
    THEN CHOOSE i \in 1..Len(summary_df) :
           summary_df[i].sheet = row.sheet /\ summary_df[i].column = row.column
    ELSE 0

RECURSIVE TotalValues(_)
TotalValues(rows) ==
    IF rows = <<>> THEN 0 ELSE Head(rows).total_values + TotalValues(Tail(rows))

\* C1: rows of equal mad appear in the ranked top deviations in the order in
\* which they were appended to the summaries.
TiesKeepInputOrder ==
    pc = "done" =>
        \A p \in 1..Len(top_deviations), q \in 1..Len(top_deviations) :
            (p < q /\ top_deviations[p].mad = top_deviations[q].mad)
                => PosOf(top_deviations[p]) < PosOf(top_deviations[q])

\* C2: leading_digit is total: whatever the scalar, the call returns None or
\* an int in 1..9 and never raises.
LeadingDigitTotal ==
    pc = "returned" => \/ result = None
                       \/ (result.tag = "int" /\ result.d \in 1..9)

HasNumber(column) == \E i \in 1..Len(column) : column[i].kind = "num"

SummaryOf(si, ci) ==
    {i \in 1..Len(summary_df) : summary_df[i].sheet = si /\ summary_df[i].column = ci}

\* C3: a column that holds a number is analyzed whatever else it holds (it
\* has its summary, with total_values the number of its cells that yield a
\* digit, and its 9 detail rows), so that a column is skipped only when
\* none of its cells is a number.
MixedColumnsAnalyzed ==
    pc = "done" =>
        \A si \in 1..Len(corpus) : \A ci \in 1..Len(corpus[si]) :
            HasNumber(corpus[si][ci]) =>
                /\ \E i \in SummaryOf(si, ci) :
                       summary_df[i].total_values
                           = Cardinality({k \in 1..Len(corpus[si][ci]) :
                                             IsInt(leading_digit(corpus[si][ci][k]))})
                /\ Cardinality({k \in 1..Len(detail_df) :
                                   detail_df[k].sheet = si /\ detail_df[k].column = ci}) = 9

\* C4: for an analyzed series, the counts of the nine detail rows sum to
\* total_values, and total_values is the number of values for which
\* leading_digit returns a digit.
CountsSumToTotal ==
    (pc = "returned" /\ analysis.tag = "ok") =>
        /\ SumOver([d \in Digits |-> analysis.detail[d].count], 9)
               = analysis.summary.total_values
        /\ analysis.summary.total_values
               = Cardinality({i \in 1..Len(series) : IsInt(leading_digit(series[i]))})

CountsSumToTotalWitness ==
    /\ pc = "returned" /\ analysis.tag = "ok"
    /\ analysis.summary.total_values = 2
    /\ \E i \in 1..Len(series) : series[i] \in {Text, NaN, Zero}
    /\ analysis.detail[9].count = 1

\* C5: whatever part of the workbook the loop has been through, the pooled
\* counts over the digits 1..9 sum to the sum of total_values of the
\* summaries collected so far; so do the actual_count of the overall table.
PooledCountsMatchSummaries ==
    /\ SumOver(ValueCounts(all_digits), 9) = TotalValues(summary_rows)
    /\ pc = "done" =>
           SumOver([d \in Digits |-> overall_table[d].actual_count], 9)
               = TotalValues(summary_df)

PooledCountsMatchSummariesWitness ==
    /\ pc = "done"
    /\ Len(summary_df) >= 3
    /\ TotalValues(summary_df) >= 3
    /\ \E i \in 1..Len(summary_df) : summary_df[i].total_values = 0

\* C6: a series that yields no leading digit gets a summary with
\* chi_square = 0 and mad = 0.
ZeroTotalZeroScores ==
    (pc = "returned" /\ analysis.tag = "ok" /\ analysis.summary.total_values = 0) =>
        /\ analysis.summary.chi_square = 0
        /\ analysis.summary.mad = 0

ZeroTotalZeroScoresWitness ==
    /\ pc = "returned" /\ analysis.tag = "ok"
    /\ analysis.summary.total_values = 0
    /\ series = <<Zero, NaN, Text>>

\* C7: for a finite number other than zero, leading_digit is the first
\* non-zero digit of the decimal representation of its magnitude, whatever
\* the sign and the scale.
LeadingDigitIsFirstNonZero ==
    (pc = "returned" /\ value.kind = "num" /\ value.m # 0) =>
        /\ result = Some(ReprLead(value))
        /\ leading_digit(Negate(value)) = result
        /\ Mul10(value).e <= 0 => leading_digit(Mul10(value)) = result

\* C8: the top deviations do not increase in mad, there are
\* min(10, number of summaries) of them, and they are the rows of largest mad.
TopDeviationsRanked ==
    pc = "done" =>
        /\ Len(top_deviations) = Min(TopN, Len(summary_df))
        /\ \A p \in 1..Len(top_deviations), q \in 1..Len(top_deviations) :
               p < q => /\ top_deviations[p].mad >= top_deviations[q].mad
                        /\ PosOf(top_deviations[p]) # PosOf(top_deviations[q])
        /\ \A p \in 1..Len(top_deviations) :
               /\ PosOf(top_deviations[p]) # 0
               /\ summary_df[PosOf(top_deviations[p])] = top_deviations[p]
        /\ \A i \in 1..Len(summary_df) :
               (\A p \in 1..Len(top_deviations) : PosOf(top_deviations[p]) # i)
                   => \A p \in 1..Len(top_deviations) :
                          summary_df[i].mad <= top_deviations[p].mad

TopDeviationsRankedWitness ==
    /\ pc = "done"
    /\ Len(summary_df) > TopN
    /\ Len(top_deviations) = TopN
    /\ top_deviations[1].mad > top_deviations[TopN].mad

\* The numeric columns the loop has been through.
Processed ==
    {sc \in UNION {{<<si, ci>> : ci \in 1..Len(corpus[si])} : si \in 1..Len(corpus)} :
        /\ IsNumberDType(corpus[sc[1]][sc[2]])
        /\ \/ sc[1] < sheet_idx
           \/ /\ sc[1] = sheet_idx
              /\ pc \in {"columns", "raised"}
              /\ sc[2] < numeric_cols[col_idx]}

\* C9: whatever part of the workbook the loop has been through, there is
\* one summary and one block of 9 detail rows, digits 1..9 ascending, per
\* analyzed column, in the order the sheets and columns were supplied; the
\* detail frame is these blocks one after the other.
OneBlockPerColumnInOrder ==
    /\ Len(detail_frames) = Len(summary_rows)
    /\ Len(summary_rows) = Cardinality(Processed)
    /\ \A i \in 1..Len(summary_rows) :
           /\ <<summary_rows[i].sheet, summary_rows[i].column>> \in Processed
           /\ Len(detail_frames[i]) = 9
           /\ \A d \in 1..9 :
                  /\ detail_frames[i][d].digit = d
                  /\ detail_frames[i][d].sheet = summary_rows[i].sheet
                  /\ detail_frames[i][d].column = summary_rows[i].column
    /\ \A i \in 1..Len(summary_rows), j \in 1..Len(summary_rows) :
           i < j => \/ summary_rows[i].sheet < summary_rows[j].sheet
                    \/ /\ summary_rows[i].sheet = summary_rows[j].sheet
                       /\ summary_rows[i].column < summary_rows[j].column
    /\ pc = "done" =>
           /\ summary_df = summary_rows
           /\ Len(detail_df) = 9 * Len(detail_frames)
           /\ \A i \in 1..Len(detail_frames) : \A d \in 1..9 :
                  detail_df[9 * (i - 1) + d] = detail_frames[i][d]

OneBlockPerColumnInOrderWitness ==
    /\ pc = "done"
    /\ Len(corpus) = 3
    /\ NumericCols(corpus[2]) = <<>> /\ corpus[2] # <<>>
    /\ Len(summary_df) = 2
    /\ summary_df[1].sheet = 1 /\ summary_df[2].sheet = 3
    /\ summary_df[1].total_values # summary_df[2].total_values

ZeroAnalyzable ==
    \A si \in 1..Len(corpus) : \A ci \in 1..Len(corpus[si]) :
        \E k \in 1..Len(corpus[si][ci]) : corpus[si][ci][k].kind = "text"

\* C10: a workbook without a numeric column runs to the end: no detail
\* row, no summary, no top deviation, and an overall table of counts 0 and
\* percents 0.
EmptyCorpusRuns ==
    ZeroAnalyzable =>
        /\ pc # "raised"
        /\ pc # "done" => ENABLED Next
        /\ pc = "done" =>
               /\ detail_df = <<>> /\ summary_df = <<>> /\ top_deviations = <<>>
               /\ \A d \in Digits :
                      /\ overall_table[d].actual_count = 0
                      /\ overall_table[d].actual_percent = 0

EmptyCorpusRunsWitness ==
    /\ ZeroAnalyzable
    /\ pc = "done"
    /\ Len(corpus) = 2
    /\ corpus[1] = <<>> /\ corpus[2] # <<>>

====
